---- MODULE Spec2Model ----
(***************************************************************************)
(* Model of the ELI5 agent's tools (src/tools.py): the Wikipedia fetcher   *)
(* with its disk cache and retry loop, and the text preprocessor; and of    *)
(* the interactive loop of main (src/eli5_agent.py).                       *)
(*                                                                         *)
(* A Python str is modelled as a sequence of one-character strings, so     *)
(* that lower(), replace(), strip(), startswith(), the "in" operator and   *)
(* the regular expressions are computed character by character.            *)
(***************************************************************************)
EXTENDS Naturals, Sequences, FiniteSets, TLC

VARIABLES
    cache,          \* ~/.eli5_cache: cache_key -> the JSON record {content}
    pc,             \* position of the fetch tool being executed
    tool,           \* which tool the agent called
    topic,          \* the tool's argument
    wiki_type,      \* argument of the running _safe_wikipedia_fetch
    attempt,        \* loop variable of _safe_wikipedia_fetch
    src_result,     \* return value of the running _safe_wikipedia_fetch
    simple_result,  \* local of fetch_wikipedia_summary
    regular_result, \* local of fetch_wikipedia_summary
    result,         \* return value of the tool
    calls,          \* number of tool calls made so far
    log,            \* history: what each source did during the current tool call
    cacheAtCall,    \* history: the cache when the current tool call started
    cacheAtEntry,   \* history: the cache when the running _safe_wikipedia_fetch started
    fetched,        \* history: <<wiki_type, topic, content>> of earlier successful fetches
    raw_text,       \* preprocess_text: the argument
    npc,            \* preprocess_text: position of the normalizer run
    once,           \* preprocess_text(raw_text)
    twice,          \* preprocess_text(preprocess_text(raw_text))
    mpc,            \* main: position in the while loop
    entered,        \* main: the topic Prompt.ask returned
    prompts,        \* main: number of prompts answered so far
    console,        \* main: what the loop has printed, in order
    raised,         \* history: the exception the agent raised in this iteration
    invoked         \* history: react_agent was called in this iteration

fetchVars == <<cache, pc, tool, topic, wiki_type, attempt, src_result, simple_result,
               regular_result, result, calls, log, cacheAtCall, cacheAtEntry, fetched>>

normVars == <<raw_text, npc, once, twice>>

mainVars == <<mpc, entered, prompts, console, raised, invoked>>

vars == <<cache, pc, tool, topic, wiki_type, attempt, src_result, simple_result,
          regular_result, result, calls, log, cacheAtCall, cacheAtEntry, fetched,
          raw_text, npc, once, twice, mpc, entered, prompts, console, raised, invoked>>

(***************************************************************************)
(* Bounds of the model.                                                    *)
(***************************************************************************)
\* Tool calls in one run of the process.
MaxCalls == 2

\* Fragments an input of preprocess_text is put together from.
MaxFragments == 4

\* Prompts answered in one run of main.
MaxPrompts == 3

(***************************************************************************)
(* str methods.                                                            *)
(***************************************************************************)
\* Characters str.strip() removes and \s matches.
Whitespace == {" ", "\t", "\n", "\r", "\f"}

UpperCase == <<"A","B","C","D","E","F","G","H","I","J","K","L","M","N","O","P","Q","R","S","T","U","V","W",
    "X","Y","Z">>

LowerCase == <<"a","b","c","d","e","f","g","h","i","j","k","l","m","n","o","p","q","r","s","t","u","v","w",
    "x","y","z">>

Digits == <<"0","1","2","3","4","5","6","7","8","9">>

UpperSet == {UpperCase[i] : i \in 1..26}

LowerSet == {LowerCase[i] : i \in 1..26}

DigitSet == {Digits[i] : i \in 1..10}

ToLower == [c \in UpperSet |-> LowerCase[CHOOSE i \in 1..26 : UpperCase[i] = c]]

IsDigit(c) == c \in DigitSet

\* \w of the re module.
IsWord(c) == c \in UpperSet \/ c \in LowerSet \/ c \in DigitSet \/ c = "_"

lowerChar(c) == IF c \in UpperSet THEN ToLower[c] ELSE c

\* str.lower()
lower(s) == [i \in 1..Len(s) |-> lowerChar(s[i])]

\* str.replace(old, new) for one-character old and new.
replace(s, old, new) == [i \in 1..Len(s) |-> IF s[i] = old THEN new ELSE s[i]]

\* str.startswith(prefix)
startswith(s, prefix) == Len(s) >= Len(prefix) /\ SubSeq(s, 1, Len(prefix)) = prefix

\* needle in s
contains(s, needle) ==
    \E i \in 0..Len(s) : i + Len(needle) <= Len(s) /\ SubSeq(s, i + 1, i + Len(needle)) = needle

RECURSIVE lstrip(_)
lstrip(s) == IF s # << >> /\ Head(s) \in Whitespace THEN lstrip(Tail(s)) ELSE s

RECURSIVE rstrip(_)
rstrip(s) ==
    IF s # << >> /\ s[Len(s)] \in Whitespace THEN rstrip(SubSeq(s, 1, Len(s) - 1)) ELSE s

\* str.strip()
strip(s) == rstrip(lstrip(s))

\* s[:n]
slice(s, n) == IF Len(s) <= n THEN s ELSE SubSeq(s, 1, n)

\* str(n) for the one-digit numbers the messages print.
str(n) == <<Digits[n + 1]>>

(***************************************************************************)
(* Cache management: _get_cached_content, _cache_content.                  *)
(***************************************************************************)
\* open(cache_file, 'w') succeeds when cache_key names a file directly in the cache
\* directory; a key with "/" names a file in a subdirectory nothing creates.
writable(cache_key) == ~contains(cache_key, <<"/">>)

get_cached_content(files, cache_key) ==
    IF cache_key \in DOMAIN files THEN files[cache_key].content ELSE << >>

cache_content(files, cache_key, content) ==
    IF writable(cache_key)
    THEN [k \in DOMAIN files \cup {cache_key} |->
             IF k = cache_key THEN [content |-> content] ELSE files[k]]
    ELSE files

(***************************************************************************)
(* _safe_wikipedia_fetch.                                                  *)
(***************************************************************************)
max_retries == 2

\* page.summary[:1500]
SummaryLimit == 1500

Simple == <<"s","i","m","p","l","e">>

En == <<"e","n">>

ErrorPrefix == <<"E","r","r","o","r">>

TopicNotFoundPrefix == <<"T","o","p","i","c"," ","n","o","t"," ","f","o","u","n","d">>

NotFoundNeedle == <<"n","o","t"," ","f","o","u","n","d">>

\* make_cache_key without lower(): the key keeps the topic's letter case.
make_cache_key_cased(wtype, t) == wtype \o <<"_">> \o replace(t, " ", "_")

\* cache_key = f"{wiki_type}_{topic.lower().replace(' ', '_')}"
make_cache_key(wtype, t) == wtype \o <<"_">> \o replace(lower(t), " ", "_")

py_command(wtype, t) ==
    <<"i","m","p","o","r","t"," ","w","i","k","i","p","e","d","i","a","a","p","i",";"," ","w","i",
    "k","i"," ","="," ","w","i","k","i","p","e","d","i","a","a","p","i",".","W","i","k","i","p",
    "e","d","i","a","(","'","M","y","E","l","i","5","A","g","e","n","t","/","1",".","0","'",",",
    " ","'">>
    \o wtype \o <<"'",")",";"," ","p","a","g","e"," ","="," ","w","i","k","i",".","p","a","g","e","(","'">> \o t
    \o <<"'",")",";"," ","p","r","i","n","t","(","p","a","g","e",".","s","u","m","m","a","r","y","[",
    ":","1","5","0","0","]"," ","i","f"," ","p","a","g","e",".","e","x","i","s","t","s","(",")",
    " ","e","l","s","e"," ","'","T","o","p","i","c"," ","n","o","t"," ","f","o","u","n","d"," ",
    "o","n"," ">>
    \o wtype \o <<" ","W","i","k","i","p","e","d","i","a",".","'",")">>

\* What the subprocess prints for a page: print() ends the line.
ProviderStdout(wtype, page) ==
    (IF page.exists THEN slice(page.summary, SummaryLimit)
     ELSE <<"T","o","p","i","c"," ","n","o","t"," ","f","o","u","n","d"," ","o","n"," ">> \o wtype \o <<" ","W","i","k","i","p","e","d","i","a",".">>) \o <<"\n">>

\* str(e) of the CalledProcessError that check=True raises: it quotes the command.
CalledProcessErrorStr(wtype, t) ==
    <<"C","o","m","m","a","n","d"," ","'","[","'","p","y","t","h","o","n","'",","," ","'","-","c",
    "'",","," ","\"">> \o py_command(wtype, t)
    \o <<"\"","]","'"," ","r","e","t","u","r","n","e","d"," ","n","o","n","-","z","e","r","o"," ","e",
    "x","i","t"," ","s","t","a","t","u","s"," ","1",".">>

\* str(e) of the OSError raised when the interpreter cannot be started.
OSErrorStr == <<"[","E","r","r","n","o"," ","2","]"," ","N","o"," ","s","u","c","h"," ","f","i","l","e"," ",
    "o","r"," ","d","i","r","e","c","t","o","r","y",":"," ","'","p","y","t","h","o","n","'">>

ExceptionStr(kind, wtype, t) ==
    IF kind = "CalledProcessError" THEN CalledProcessErrorStr(wtype, t) ELSE OSErrorStr

\* if cached and not cached.startswith("Error")
IsCacheHit(cached) == cached # << >> /\ ~startswith(cached, ErrorPrefix)

\* ShouldCache without its conditions: whatever the subprocess printed is cached.
ShouldCacheAnything(content) == TRUE

\* if content and not content.startswith("Topic not found")
ShouldCache(content) == content # << >> /\ ~startswith(content, TopicNotFoundPrefix)

\* MoreAttempts off by one: it continues on the last attempt too.
RetryOnLastAttempt(a) == a < max_retries

\* if attempt < max_retries - 1: continue
MoreAttempts(a) == a + 1 < max_retries

TimeoutMsg(t) ==
    <<"E","r","r","o","r",":"," ","W","i","k","i","p","e","d","i","a"," ","f","e","t","c","h"," ",
    "t","i","m","e","d"," ","o","u","t"," ","f","o","r"," ","'">> \o t \o <<"'"," ","a","f","t","e","r"," ">> \o str(max_retries)
    \o <<" ","a","t","t","e","m","p","t","s">>

ExceptionMsg(wtype, t, e) ==
    <<"E","r","r","o","r"," ","f","e","t","c","h","i","n","g"," ","f","r","o","m"," ">> \o wtype \o <<" ","W","i","k","i","p","e","d","i","a"," ","f","o","r"," ","'">> \o t \o <<"'",":"," ">> \o e

FailedMsg(t) ==
    <<"E","r","r","o","r",":"," ","F","a","i","l","e","d"," ","t","o"," ","f","e","t","c","h"," ",
    "'">> \o t \o <<"'"," ","a","f","t","e","r"," ">> \o str(max_retries) \o <<" ","a","t","t","e","m","p","t","s">>

(***************************************************************************)
(* fetch_wikipedia_summary.                                                *)
(***************************************************************************)
SimpleTag == <<"[","S","i","m","p","l","e"," ","W","i","k","i","p","e","d","i","a","]"," ">>

WikipediaTag == <<"[","W","i","k","i","p","e","d","i","a","]"," ">>

\* if r and not r.startswith("Topic not found") and not r.startswith("Error")
HasContent(r) ==
    r # << >> /\ ~startswith(r, TopicNotFoundPrefix) /\ ~startswith(r, ErrorPrefix)

NotFoundMsg(t) ==
    <<"T","o","p","i","c"," ","'">> \o t
    \o <<"'"," ","n","o","t"," ","f","o","u","n","d"," ","o","n"," ","e","i","t","h","e","r"," ","S",
    "i","m","p","l","e"," ","o","r"," ","r","e","g","u","l","a","r"," ","W","i","k","i","p","e",
    "d","i","a","."," ","T","r","y"," ","a"," ","d","i","f","f","e","r","e","n","t"," ","t","o",
    "p","i","c"," ","o","r"," ","c","h","e","c","k"," ","s","p","e","l","l","i","n","g",".">>

AccessErrorMsg(t) ==
    <<"E","r","r","o","r"," ","a","c","c","e","s","s","i","n","g"," ","W","i","k","i","p","e","d",
    "i","a"," ","f","o","r"," ","'">> \o t \o <<"'","."," ","P","l","e","a","s","e"," ","t","r","y"," ","a","g","a","i","n"," ","l","a","t",
    "e","r",".">>

\* FailureMsg with startswith in place of "in".
FailureMsgByPrefix(s, r, t) ==
    IF startswith(s, NotFoundNeedle) /\ startswith(r, NotFoundNeedle)
    THEN NotFoundMsg(t) ELSE AccessErrorMsg(t)

\* if "not found" in simple_result and "not found" in regular_result
FailureMsg(s, r, t) ==
    IF contains(s, NotFoundNeedle) /\ contains(r, NotFoundNeedle)
    THEN NotFoundMsg(t) ELSE AccessErrorMsg(t)

(***************************************************************************)
(* The environment: topics the agent asks for and what the provider does.  *)
(***************************************************************************)
Topics == { <<"G","r","a","v","i","t","y">>, <<"G","R","A","V","I","T","Y">>, <<" ","G","r","a","v","i","t","y">>, <<"A","C","/","D","C">> }

Tools == {"fetch_wikipedia_summary", "fetch_simple_wikipedia_summary"}

Summaries == { << >>, <<"G","r","a","v","i","t","y"," ","p","u","l","l","s",".">>, <<"E","r","r","o","r"," ","b","a","r","s"," ","s","h","o","w"," ","d","o","u","b","t",".">> }

Pages == [exists : {TRUE}, summary : Summaries] \cup {[exists |-> FALSE, summary |-> << >>]}

Exceptions == {"CalledProcessError", "OSError"}

Ran(wtype, kind, page) == [src |-> wtype, kind |-> kind, page |-> page]

NoPage == [exists |-> FALSE, summary |-> << >>]

(***************************************************************************)
(* History read off the log of the current tool call.                      *)
(***************************************************************************)
\* The provider runs (subprocess.run calls) made for one source.
Runs(wtype) == SelectSeq(log, LAMBDA e : e.src = wtype /\ e.kind # "hit")

Invocations(wtype) == Len(Runs(wtype))

LastRun(wtype) == Runs(wtype)[Len(Runs(wtype))]

\* The source's last provider run resolved the topic as not existing.
ResolvedMissing(wtype) ==
    /\ Invocations(wtype) > 0
    /\ LastRun(wtype).kind = "exit0"
    /\ ~LastRun(wtype).page.exists

\* The source's last provider run resolved the topic as existing, with this text.
ResolvedText(wtype, text) ==
    /\ Invocations(wtype) > 0
    /\ LastRun(wtype).kind = "exit0"
    /\ LastRun(wtype).page.exists
    /\ LastRun(wtype).page.summary = text

\* The source's last provider run timed out or raised.
InfraFailed(wtype) ==
    /\ Invocations(wtype) > 0
    /\ LastRun(wtype).kind \in {"timeout", "exception"}

AllTimedOut(wtype) ==
    /\ Invocations(wtype) > 0
    /\ \A i \in 1..Invocations(wtype) : Runs(wtype)[i].kind = "timeout"

\* Successful fetches of the current tool call: found, non-empty content.
Successes ==
    { <<log[i].src, topic, strip(ProviderStdout(log[i].src, log[i].page))>> :
        i \in { j \in 1..Len(log) : /\ log[j].kind = "exit0"
                                    /\ log[j].page.exists
                                    /\ strip(log[j].page.summary) # << >> } }

(***************************************************************************)
(* Initial state: a fresh cache directory, no tool running.                *)
(***************************************************************************)
NormIdle ==
    /\ raw_text = << >>
    /\ npc = "idle"
    /\ once = << >>
    /\ twice = << >>

FetchIdle ==
    /\ cache = << >>
    /\ pc = "idle"
    /\ tool = "none"
    /\ topic = << >>
    /\ wiki_type = Simple
    /\ attempt = 0
    /\ src_result = << >>
    /\ simple_result = << >>
    /\ regular_result = << >>
    /\ result = << >>
    /\ calls = 0
    /\ log = << >>
    /\ cacheAtCall = << >>
    /\ cacheAtEntry = << >>
    /\ fetched = {}

NoException == [class |-> "none", msg |-> << >>]

\* main is not in its loop.
MainIdle ==
    /\ mpc = "idle"
    /\ entered = << >>
    /\ prompts = 0
    /\ console = << >>
    /\ raised = NoException
    /\ invoked = FALSE

Init == FetchIdle /\ NormIdle /\ MainIdle

(***************************************************************************)
(* The agent calls fetch_wikipedia_summary(t) or                           *)
(* fetch_simple_wikipedia_summary(t); both start with                      *)
(* _safe_wikipedia_fetch(t, 'simple').                                     *)
(***************************************************************************)
Call(tl, t) ==
    /\ pc \in {"idle", "done"}
    /\ calls < MaxCalls
    /\ calls' = calls + 1
    /\ tool' = tl
    /\ topic' = t
    /\ wiki_type' = Simple
    /\ pc' = "check_cache"
    /\ attempt' = 0
    /\ src_result' = << >>
    /\ simple_result' = << >>
    /\ regular_result' = << >>
    /\ result' = << >>
    /\ log' = << >>
    /\ cacheAtCall' = cache
    /\ fetched' = fetched \cup Successes
    /\ UNCHANGED <<cache, cacheAtEntry>>
    /\ UNCHANGED normVars
    /\ UNCHANGED mainVars

\* _safe_wikipedia_fetch, lines 72-77: the cache check.
CheckCache ==
    /\ pc = "check_cache"
    /\ cacheAtEntry' = cache
    /\ LET cached == get_cached_content(cache, make_cache_key(wiki_type, topic))
       IN  IF IsCacheHit(cached)
           THEN /\ src_result' = cached
                /\ pc' = "returned"
                /\ log' = Append(log, Ran(wiki_type, "hit", NoPage))
                /\ UNCHANGED attempt
           ELSE /\ attempt' = 0
                /\ IF 0 < max_retries
                   THEN pc' = "run" /\ UNCHANGED src_result
                   ELSE pc' = "returned" /\ src_result' = FailedMsg(topic)
                /\ UNCHANGED log
    /\ UNCHANGED <<cache, tool, topic, wiki_type, simple_result, regular_result, result,
                   calls, cacheAtCall, fetched>>
    /\ UNCHANGED normVars
    /\ UNCHANGED mainVars

\* "continue": the for loop takes the next attempt, or ends and line 109 returns.
Continue ==
    /\ attempt' = attempt + 1
    /\ IF attempt + 1 < max_retries
       THEN pc' = "run" /\ UNCHANGED src_result
       ELSE pc' = "returned" /\ src_result' = FailedMsg(topic)

\* One attempt whose subprocess exits 0 (lines 88-98).
AttemptExit0(page) ==
    /\ pc = "run"
    /\ LET cache_key == make_cache_key(wiki_type, topic)
           content == strip(ProviderStdout(wiki_type, page))
       IN  /\ cache' = IF ShouldCache(content)
                       THEN cache_content(cache, cache_key, content)
                       ELSE cache
           /\ src_result' = content
    /\ pc' = "returned"
    /\ log' = Append(log, Ran(wiki_type, "exit0", page))
    /\ UNCHANGED <<tool, topic, wiki_type, attempt, simple_result, regular_result, result,
                   calls, cacheAtCall, cacheAtEntry, fetched>>
    /\ UNCHANGED normVars
    /\ UNCHANGED mainVars

\* One attempt that ends in subprocess.TimeoutExpired (lines 100-103).
AttemptTimeout ==
    /\ pc = "run"
    /\ log' = Append(log, Ran(wiki_type, "timeout", NoPage))
    /\ IF MoreAttempts(attempt)
       THEN Continue
       ELSE /\ src_result' = TimeoutMsg(topic)
            /\ pc' = "returned"
            /\ UNCHANGED attempt
    /\ UNCHANGED <<cache, tool, topic, wiki_type, simple_result, regular_result, result,
                   calls, cacheAtCall, cacheAtEntry, fetched>>
    /\ UNCHANGED normVars
    /\ UNCHANGED mainVars

\* One attempt that ends in any other exception (lines 104-107).
AttemptException(e) ==
    /\ pc = "run"
    /\ log' = Append(log, Ran(wiki_type, "exception", NoPage))
    /\ IF MoreAttempts(attempt)
       THEN Continue
       ELSE /\ src_result' = ExceptionMsg(wiki_type, topic, ExceptionStr(e, wiki_type, topic))
            /\ pc' = "returned"
            /\ UNCHANGED attempt
    /\ UNCHANGED <<cache, tool, topic, wiki_type, simple_result, regular_result, result,
                   calls, cacheAtCall, cacheAtEntry, fetched>>
    /\ UNCHANGED normVars
    /\ UNCHANGED mainVars

\* fetch_simple_wikipedia_summary returns what _safe_wikipedia_fetch returned.
ReturnLegacy ==
    /\ pc = "returned"
    /\ tool = "fetch_simple_wikipedia_summary"
    /\ result' = src_result
    /\ pc' = "done"
    /\ UNCHANGED <<cache, tool, topic, wiki_type, attempt, src_result, simple_result,
                   regular_result, calls, log, cacheAtCall, cacheAtEntry, fetched>>
    /\ UNCHANGED normVars
    /\ UNCHANGED mainVars

\* fetch_wikipedia_summary, lines 123-130.
ReturnSimple ==
    /\ pc = "returned"
    /\ tool = "fetch_wikipedia_summary"
    /\ wiki_type = Simple
    /\ simple_result' = src_result
    /\ IF HasContent(src_result)
       THEN /\ result' = SimpleTag \o src_result
            /\ pc' = "done"
            /\ UNCHANGED wiki_type
       ELSE /\ wiki_type' = En
            /\ pc' = "check_cache"
            /\ UNCHANGED result
    /\ UNCHANGED <<cache, tool, topic, attempt, src_result, regular_result, calls, log,
                   cacheAtCall, cacheAtEntry, fetched>>
    /\ UNCHANGED normVars
    /\ UNCHANGED mainVars

\* fetch_wikipedia_summary, lines 130-139.
ReturnRegular ==
    /\ pc = "returned"
    /\ tool = "fetch_wikipedia_summary"
    /\ wiki_type = En
    /\ regular_result' = src_result
    /\ result' = IF HasContent(src_result)
                 THEN WikipediaTag \o src_result
                 ELSE FailureMsg(simple_result, src_result, topic)
    /\ pc' = "done"
    /\ UNCHANGED <<cache, tool, topic, wiki_type, attempt, src_result, simple_result, calls,
                   log, cacheAtCall, cacheAtEntry, fetched>>
    /\ UNCHANGED normVars
    /\ UNCHANGED mainVars

\* The steps of a running tool call.
Step ==
    \/ CheckCache
    \/ \E page \in Pages : AttemptExit0(page)
    \/ AttemptTimeout
    \/ \E e \in Exceptions : AttemptException(e)
    \/ ReturnLegacy
    \/ ReturnSimple
    \/ ReturnRegular

Next ==
    \/ \E tl \in Tools, t \in Topics : Call(tl, t)
    \/ Step

Spec == Init /\ [][Next]_vars

\* A running tool call is a sequential Python function: it keeps executing.
FairSpec == Spec /\ WF_vars(Step)

(***************************************************************************)
(* preprocess_text: the regular expressions.  Each Match operator gives,   *)
(* for a match of its pattern that starts at position i of s, the position *)
(* after the match, and 0 when the pattern does not match at i.            *)
(***************************************************************************)
\* First position from i on that holds no whitespace: the end of \s*.
RECURSIVE SkipSpace(_, _)
SkipSpace(s, i) == IF i <= Len(s) /\ s[i] \in Whitespace THEN SkipSpace(s, i + 1) ELSE i

\* First position from i on that holds no digit: the end of \d*.
RECURSIVE SkipDigits(_, _)
SkipDigits(s, i) == IF i <= Len(s) /\ IsDigit(s[i]) THEN SkipDigits(s, i + 1) ELSE i

\* The literal lit stands at position i.
LitAt(s, i, lit) ==
    /\ i + Len(lit) - 1 <= Len(s)
    /\ \A k \in 1..Len(lit) : s[i + k - 1] = lit[k]

\* The same under re.IGNORECASE.
LitAtIgnoreCase(s, i, lit) ==
    /\ i + Len(lit) - 1 <= Len(s)
    /\ \A k \in 1..Len(lit) : lowerChar(s[i + k - 1]) = lowerChar(lit[k])

\* \b at position i: exactly one of s[i-1] and s[i] is a word character.
WordBoundary(s, i) ==
    (i > 1 /\ i - 1 <= Len(s) /\ IsWord(s[i - 1])) # (i >= 1 /\ i <= Len(s) /\ IsWord(s[i]))

\* r'\[\d+\]'
MatchCitation(s, i) ==
    IF s[i] = "["
    THEN LET j == SkipDigits(s, i + 1)
         IN  IF j > i + 1 /\ j <= Len(s) /\ s[j] = "]" THEN j + 1 ELSE 0
    ELSE 0

\* r'\[edit\]', re.IGNORECASE
MatchEdit(s, i) == IF LitAtIgnoreCase(s, i, <<"[","e","d","i","t","]">>) THEN i + 6 ELSE 0

\* r'\s*\(listen\)\s*', re.IGNORECASE
MatchListen(s, i) ==
    LET j == SkipSpace(s, i)
    IN  IF LitAtIgnoreCase(s, j, <<"(","l","i","s","t","e","n",")">>) THEN SkipSpace(s, j + 8) ELSE 0

\* Position of the first ")" from i on, 0 when there is none: the end of [^)]*.
RECURSIVE FindClose(_, _)
FindClose(s, i) ==
    IF i > Len(s) THEN 0 ELSE IF s[i] = ")" THEN i ELSE FindClose(s, i + 1)

\* [\w\s]*\d+:\d+ matches at k, before position c.
TimeRefAt(s, k, c) ==
    \E m \in k..(c - 1) :
        /\ \A x \in k..(m - 1) : IsWord(s[x]) \/ s[x] \in Whitespace
        /\ LET d == SkipDigits(s, m)
           IN  /\ d > m
               /\ d < c
               /\ s[d] = ":"
               /\ SkipDigits(s, d + 1) > d + 1

\* (?:e\.g\.|i\.e\.|etc\.|cit\.(?:\s*needed)?|citation needed|[\w\s]*\d+:\d+) at k
NoteAt(s, k, c) ==
    \/ LitAtIgnoreCase(s, k, <<"e",".","g",".">>)
    \/ LitAtIgnoreCase(s, k, <<"i",".","e",".">>)
    \/ LitAtIgnoreCase(s, k, <<"e","t","c",".">>)
    \/ LitAtIgnoreCase(s, k, <<"c","i","t",".">>)
    \/ LitAtIgnoreCase(s, k, <<"c","i","t","a","t","i","o","n"," ","n","e","e","d","e","d">>)
    \/ TimeRefAt(s, k, c)

\* r'\s*\([^)]*\b(?:...)[^)]*\)\s*', re.IGNORECASE
MatchNote(s, i) ==
    LET j == SkipSpace(s, i)
    IN  IF j <= Len(s) /\ s[j] = "("
        THEN LET c == FindClose(s, j + 1)
             IN  IF c > 0 /\ \E k \in (j + 1)..(c - 1) : WordBoundary(s, k) /\ NoteAt(s, k, c)
                 THEN SkipSpace(s, c + 1)
                 ELSE 0
        ELSE 0

\* r'\(\s*\)'
MatchEmptyParens(s, i) ==
    IF s[i] = "("
    THEN LET j == SkipSpace(s, i + 1)
         IN  IF j <= Len(s) /\ s[j] = ")" THEN j + 1 ELSE 0
    ELSE 0

\* r'\s+'
MatchSpaces(s, i) == IF s[i] \in Whitespace THEN SkipSpace(s, i) ELSE 0

Match(pattern, s, i) ==
    CASE pattern = "citation" -> MatchCitation(s, i)
      [] pattern = "edit" -> MatchEdit(s, i)
      [] pattern = "listen" -> MatchListen(s, i)
      [] pattern = "note" -> MatchNote(s, i)
      [] pattern = "empty_parens" -> MatchEmptyParens(s, i)
      [] pattern = "spaces" -> MatchSpaces(s, i)

\* re.sub(pattern, repl, s) from position i on: one left-to-right pass over s that
\* replaces the leftmost matches, none of them overlapping.
RECURSIVE re_sub_from(_, _, _, _)
re_sub_from(pattern, repl, s, i) ==
    IF i > Len(s)
    THEN << >>
    ELSE LET e == Match(pattern, s, i)
         IN  IF e > 0
             THEN repl \o re_sub_from(pattern, repl, s, e)
             ELSE <<s[i]>> \o re_sub_from(pattern, repl, s, i + 1)

re_sub(pattern, repl, s) == re_sub_from(pattern, repl, s, 1)

\* re.sub(r'^\[(?:Simple )?Wikipedia\]\s*', '', s)
strip_source_prefix(s) ==
    IF LitAt(s, 1, <<"[","S","i","m","p","l","e"," ","W","i","k","i","p","e","d","i","a","]">>)
    THEN SubSeq(s, SkipSpace(s, 19), Len(s))
    ELSE IF LitAt(s, 1, <<"[","W","i","k","i","p","e","d","i","a","]">>)
         THEN SubSeq(s, SkipSpace(s, 12), Len(s))
         ELSE s

NoTextMsg == <<"E","r","r","o","r",":"," ","N","o"," ","t","e","x","t"," ","p","r","o","v","i","d","e","d",
    " ","f","o","r"," ","p","r","e","p","r","o","c","e","s","s","i","n","g">>

EmptyTextMsg == <<"E","r","r","o","r",":"," ","T","e","x","t"," ","b","e","c","a","m","e"," ","e","m","p","t",
    "y"," ","a","f","t","e","r"," ","p","r","e","p","r","o","c","e","s","s","i","n","g">>

preprocess_text(raw) ==
    IF raw = << >>
    THEN NoTextMsg
    ELSE LET t1 == re_sub("citation", << >>, raw)
             t2 == re_sub("edit", << >>, t1)
             t3 == re_sub("listen", <<" ">>, t2)
             t4 == re_sub("note", <<" ">>, t3)
             t5 == re_sub("empty_parens", <<" ">>, t4)
             t6 == strip_source_prefix(t5)
             t7 == strip(re_sub("spaces", <<" ">>, t6))
         IN  IF t7 = << >> THEN EmptyTextMsg ELSE t7

(***************************************************************************)
(* The texts preprocess_text is given: every concatenation of at most      *)
(* MaxFragments fragments, each an artifact the function removes or a      *)
(* character its patterns read.                                            *)
(***************************************************************************)
Fragments ==
    { <<"[">>, <<"]">>, <<"1">>, <<"(">>, <<")">>, <<" ">>, <<"x">>, <<"[","e","d","i","t","]">>, <<"(","l","i","s","t","e","n",")">>, <<"e",".","g",".">>,
      <<"[","W","i","k","i","p","e","d","i","a","]">> }

RECURSIVE Texts(_)
Texts(n) ==
    IF n = 0
    THEN {<< >>}
    ELSE LET shorter == Texts(n - 1)
         IN  shorter \cup {t \o f : t \in shorter, f \in Fragments}

NormInit ==
    /\ FetchIdle
    /\ MainIdle
    /\ raw_text \in Texts(MaxFragments)
    /\ npc = "called"
    /\ once = << >>
    /\ twice = << >>

\* preprocess_text(raw_text)
Preprocess ==
    /\ npc = "called"
    /\ once' = preprocess_text(raw_text)
    /\ npc' = "once"
    /\ UNCHANGED <<raw_text, twice>>
    /\ UNCHANGED fetchVars
    /\ UNCHANGED mainVars

\* preprocess_text applied to its own result
PreprocessAgain ==
    /\ npc = "once"
    /\ twice' = preprocess_text(once)
    /\ npc' = "twice"
    /\ UNCHANGED <<raw_text, once>>
    /\ UNCHANGED fetchVars
    /\ UNCHANGED mainVars

NormNext == Preprocess \/ PreprocessAgain

NormSpec == NormInit /\ [][NormNext]_vars

(***************************************************************************)
(* Properties of the fetcher, checked under Spec (C7 under FairSpec).      *)
(***************************************************************************)
InSafeFetch == pc \in {"check_cache", "run"}

\* The running _safe_wikipedia_fetch served its result from the cache.
CacheHit == pc = "returned" /\ log # << >> /\ log[Len(log)] = Ran(wiki_type, "hit", NoPage)

\* The running _safe_wikipedia_fetch ended in a timeout, another exception, an empty
\* result or a not-found result.
EndedInFailure ==
    /\ pc = "returned"
    /\ Invocations(wiki_type) > 0
    /\ \/ InfraFailed(wiki_type)
       \/ src_result = << >>
       \/ ResolvedMissing(wiki_type)

\* C2: every cache entry holds non-empty content that is no "Topic not found" message
\* and that a provider run returned for a topic with that key; a _safe_wikipedia_fetch
\* that ends in a timeout, another exception, an empty or a not-found result has left
\* the cache as it found it.
C2_CacheHoldsOnlyFetchedContent ==
    /\ \A k \in DOMAIN cache :
          /\ cache[k].content # << >>
          /\ ~startswith(cache[k].content, TopicNotFoundPrefix)
          /\ \E f \in fetched \cup Successes :
                make_cache_key(f[1], f[2]) = k /\ f[3] = cache[k].content
    /\ EndedInFailure => cache = cacheAtEntry

C2_Witness ==
    /\ EndedInFailure
    /\ ResolvedMissing(wiki_type)
    /\ DOMAIN cache # {}
    /\ cache = cacheAtEntry

\* C3 (as claimed): once a fetch of a topic from the simplified source has succeeded
\* with some content, every later fetch of that topic from that source returns that
\* content and runs no provider subprocess.
C3_RefetchIsServedFromCache ==
    (pc = "returned" /\ wiki_type = Simple) =>
        \A f \in fetched :
            (f[1] = Simple /\ f[2] = topic) =>
                (src_result = f[3] /\ Invocations(Simple) = 0)

\* C4 (as claimed): when the simplified source resolves the topic as not existing and
\* the general source resolves it as existing with a non-empty text T, the result of
\* fetch_wikipedia_summary is "[Wikipedia] " followed by T.
C4_FallbackReturnsGeneralText ==
    (/\ pc = "done"
     /\ tool = "fetch_wikipedia_summary"
     /\ ResolvedMissing(Simple)
     /\ \E text \in Summaries \ {<< >>} : ResolvedText(En, text)) =>
        result = WikipediaTag \o LastRun(En).page.summary

BothMissing ==
    /\ pc = "done"
    /\ tool = "fetch_wikipedia_summary"
    /\ ResolvedMissing(Simple)
    /\ ResolvedMissing(En)

BothSourcesNamed == <<"e","i","t","h","e","r"," ","S","i","m","p","l","e"," ","o","r"," ","r","e","g","u","l","a",
    "r"," ","W","i","k","i","p","e","d","i","a">>

\* C5: when both sources resolve the topic as not existing, fetch_wikipedia_summary
\* returns the topic-not-found message, which names Simple and regular Wikipedia and
\* differs from the access-error message, and the call has written no cache entry.
C5_BothMissingIsNotFound ==
    BothMissing =>
        /\ result = NotFoundMsg(topic)
        /\ contains(result, BothSourcesNamed)
        /\ result # AccessErrorMsg(topic)
        /\ cache = cacheAtCall

C5_Witness == BothMissing /\ DOMAIN cache # {} /\ Invocations(Simple) = max_retries

\* C6 (as claimed): when a source of fetch_wikipedia_summary failed for an
\* infrastructure reason (timeout or another exception), the result is not the
\* topic-not-found message; that message is returned only when both sources resolved
\* the topic as not existing.
C6_NotFoundOnlyWhenBothMissing ==
    (pc = "done" /\ tool = "fetch_wikipedia_summary") =>
        /\ (InfraFailed(Simple) \/ InfraFailed(En)) => result # NotFoundMsg(topic)
        /\ result = NotFoundMsg(topic) => (ResolvedMissing(Simple) /\ ResolvedMissing(En))

\* The states of C7: a source is never run more than max_retries times, a tool call
\* never more than 2 * max_retries times, and a _safe_wikipedia_fetch all of whose
\* attempts timed out has used every attempt and returns the timeout error.
C7_Bounded ==
    /\ Invocations(Simple) <= max_retries
    /\ Invocations(En) <= max_retries
    /\ Invocations(Simple) + Invocations(En) <= 2 * max_retries
    /\ (pc = "returned" /\ AllTimedOut(wiki_type)) =>
          /\ Invocations(wiki_type) = max_retries
          /\ src_result = TimeoutMsg(topic)

\* The steps of C7: an attempt that times out while attempts remain is followed at
\* once by the next attempt, with nothing cached and nothing returned in between.
C7_RetriesAtOnce ==
    (/\ pc = "run"
     /\ Invocations(wiki_type)' = Invocations(wiki_type) + 1
     /\ LastRun(wiki_type)'.kind = "timeout"
     /\ Invocations(wiki_type)' < max_retries) =>
        /\ pc' = "run"
        /\ attempt' = attempt + 1
        /\ cache' = cache
        /\ src_result' = src_result

\* C7: on a cache miss _safe_wikipedia_fetch runs the provider at most max_retries
\* times, retries a timed-out attempt at once while attempts remain, returns the
\* timeout error when every attempt timed out, and always returns; one
\* fetch_wikipedia_summary call runs the provider at most 2 * max_retries times.
C7_RetryIsBoundedAndReturns ==
    /\ []C7_Bounded
    /\ [][C7_RetriesAtOnce]_vars
    /\ (InSafeFetch ~> pc = "returned")

C7_Witness ==
    /\ pc = "returned"
    /\ wiki_type = En
    /\ AllTimedOut(En)
    /\ AllTimedOut(Simple)
    /\ Invocations(Simple) + Invocations(En) = 2 * max_retries

\* The topic with its letters lower-cased, its ends trimmed and each run of whitespace
\* made one space: what a case-insensitive, whitespace-normalized key would keep.
RECURSIVE CollapseSpaces(_)
CollapseSpaces(s) ==
    IF s = << >>
    THEN << >>
    ELSE IF Head(s) \in Whitespace
         THEN <<" ">> \o CollapseSpaces(lstrip(s))
         ELSE <<Head(s)>> \o CollapseSpaces(Tail(s))

CaseAndSpaceNormal(t) == CollapseSpaces(strip(lower(t)))

\* C8 (as claimed): two topics that differ only in letter case and in whitespace have
\* the same cache key for a source.
C8_KeyIgnoresCaseAndWhitespace ==
    pc = "check_cache" =>
        \A t \in Topics :
            CaseAndSpaceNormal(t) = CaseAndSpaceNormal(topic) =>
                make_cache_key(wiki_type, t) = make_cache_key(wiki_type, topic)

\* Character by character: the same letters up to case, a space where the other has a
\* space or an underscore.
SameUpToCase(t, u) ==
    /\ Len(t) = Len(u)
    /\ \A i \in 1..Len(t) :
          (IF t[i] = " " THEN "_" ELSE lowerChar(t[i]))
              = (IF u[i] = " " THEN "_" ELSE lowerChar(u[i]))

\* C8 (amended): the cache key ignores letter case and nothing else. Two topics have
\* the same key for a source exactly when they agree character by character up to
\* letter case (a space counting as an underscore), so whitespace is neither trimmed
\* nor collapsed; a fetch of a topic reads and writes the cache entry of every topic
\* that differs from it only in letter case.
C8_KeyIgnoresCaseOnly ==
    /\ pc = "check_cache" =>
          \A t \in Topics :
              make_cache_key(wiki_type, t) = make_cache_key(wiki_type, topic)
                  <=> SameUpToCase(t, topic)
    /\ CacheHit =>
          \A t \in Topics :
              lower(t) = lower(topic) =>
                  src_result = get_cached_content(cacheAtEntry, make_cache_key(wiki_type, t))
    /\ (pc = "returned" /\ cache # cacheAtEntry) =>
          \A t \in Topics :
              lower(t) = lower(topic) =>
                  src_result = get_cached_content(cache, make_cache_key(wiki_type, t))

\* A fetch served from the entry that a fetch of the same topic in other letters stored.
C8_Witness ==
    /\ CacheHit
    /\ \E f \in fetched :
          /\ f[1] = wiki_type
          /\ f[2] # topic
          /\ lower(f[2]) = lower(topic)
          /\ f[3] = src_result

(***************************************************************************)
(* Properties of preprocess_text, checked under NormSpec.                  *)
(***************************************************************************)
\* s holds a bracketed citation number: "[", one or more digits, "]".
HasCitationMarker(s) ==
    \E i \in 1..Len(s), j \in 1..Len(s) :
        /\ i + 1 < j
        /\ s[i] = "["
        /\ s[j] = "]"
        /\ \A k \in (i + 1)..(j - 1) : IsDigit(s[k])

\* C9 (as claimed): preprocess_text is idempotent: applied to its own result it
\* returns that result.
C9_PreprocessIsIdempotent == npc = "twice" => twice = once

\* C10 (as claimed): the result of preprocess_text holds no bracketed citation number.
C10_NoCitationMarkerLeft == npc = "once" => ~HasCitationMarker(once)

(***************************************************************************)
(* main (src/eli5_agent.py): the interactive loop.  console.print renders  *)
(* its argument as console markup, in which [name] opens a style and       *)
(* [/name] or [/] closes one; a closing tag that closes nothing raises     *)
(* MarkupError.                                                            *)
(***************************************************************************)
\* The first character of a markup tag: [a-z#/@].
TagStart == LowerSet \cup {"#", "/", "@"}

\* Position of the "]" that ends a tag whose text runs from i, 0 when a "[" or the end
\* of s comes first.
RECURSIVE TagEnd(_, _)
TagEnd(s, i) ==
    IF i > Len(s) \/ s[i] = "["
    THEN 0
    ELSE IF s[i] = "]" THEN i ELSE TagEnd(s, i + 1)

\* The stack of open styles without the last one opened under this name.
RemoveLast(stack, name) ==
    LET k == CHOOSE j \in 1..Len(stack) :
                 stack[j] = name /\ \A m \in (j + 1)..Len(stack) : stack[m] # name
    IN  SubSeq(stack, 1, k - 1) \o SubSeq(stack, k + 1, Len(stack))

\* Rendering markup s from position i on, with these styles open, raises MarkupError.
RECURSIVE markup_error_from(_, _, _)
markup_error_from(s, i, stack) ==
    IF i > Len(s)
    THEN FALSE
    ELSE LET e == IF s[i] = "[" /\ i + 1 <= Len(s) /\ s[i + 1] \in TagStart
                  THEN TagEnd(s, i + 2)
                  ELSE 0
         IN  IF e = 0
             THEN markup_error_from(s, i + 1, stack)
             ELSE LET name == SubSeq(s, i + 1, e - 1)
                  IN  IF name[1] # "/"
                      THEN markup_error_from(s, e + 1, Append(stack, name))
                      ELSE LET style == strip(Tail(name))
                           IN  IF style = << >>
                               THEN IF stack = << >>
                                    THEN TRUE
                                    ELSE markup_error_from(s, e + 1,
                                             SubSeq(stack, 1, Len(stack) - 1))
                               ELSE IF \E j \in 1..Len(stack) : stack[j] = style
                                    THEN markup_error_from(s, e + 1, RemoveLast(stack, style))
                                    ELSE TRUE

markup_error(s) == markup_error_from(s, 1, << >>)

\* f"\n[bold]Running ReAct Agent for topic: '{topic}'...[/bold]"
RunningMarkup(t) ==
    <<"[","b","o","l","d","]","R","u","n","n","i","n","g"," ","R","e","A","c","t"," ","A","g","e",
    "n","t"," ","f","o","r"," ","t","o","p","i","c",":"," ","'">> \o t \o <<"'",".",".",".","[","/","b","o","l","d","]">>

\* f"[bold red]An error occurred while running the agent: {e}[/bold red]"
ErrorMarkup(e) ==
    <<"[","b","o","l","d"," ","r","e","d","]","A","n"," ","e","r","r","o","r"," ","o","c","c","u",
    "r","r","e","d"," ","w","h","i","l","e"," ","r","u","n","n","i","n","g"," ","t","h","e"," ",
    "a","g","e","n","t",":"," ">> \o e \o <<"[","/","b","o","l","d"," ","r","e","d","]">>

\* if topic.lower() in ["exit", "quit"]
ExitWords == { <<"e","x","i","t">>, <<"q","u","i","t">> }

(***************************************************************************)
(* The environment of main: what the user types and how an agent run ends. *)
(***************************************************************************)
MainTopics == { <<"e","x","i","t">>, <<"Q","U","I","T">>, <<"G","r","a","v","i","t","y">>, <<"e","x","i","t","s">>, <<"[","/","b","]">> }

\* Exceptions a run of react_agent ends with: class and str(e).
Raised ==
    { [class |-> "RuntimeError", msg |-> <<"r","a","t","e"," ","l","i","m","i","t"," ","e","x","c","e","e","d","e","d">>],
      [class |-> "ValueError", msg |-> <<"c","a","n","n","o","t"," ","p","a","r","s","e"," ","[","/","I","N","S","T","]">>],
      [class |-> "KeyboardInterrupt", msg |-> << >>] }

\* The class is a subclass of Exception: "except Exception" catches it.
IsException(class) == class \notin {"KeyboardInterrupt", "SystemExit", "GeneratorExit"}

MainInit ==
    /\ FetchIdle
    /\ NormIdle
    /\ mpc = "prompt"
    /\ entered = << >>
    /\ prompts = 0
    /\ console = <<"initialized">>
    /\ raised = NoException
    /\ invoked = FALSE

\* Line 94: Prompt.ask returns the topic the user typed.
Ask(t) ==
    /\ mpc = "prompt"
    /\ prompts < MaxPrompts
    /\ prompts' = prompts + 1
    /\ entered' = t
    /\ raised' = NoException
    /\ invoked' = FALSE
    /\ mpc' = "entered"
    /\ UNCHANGED console
    /\ UNCHANGED <<fetchVars, normVars>>

\* Line 94: the input has ended and Prompt.ask raises EOFError; no try is around it.
AskFails ==
    /\ mpc = "prompt"
    /\ raised' = NoException
    /\ invoked' = FALSE
    /\ mpc' = "crashed"
    /\ UNCHANGED <<entered, prompts, console>>
    /\ UNCHANGED <<fetchVars, normVars>>

\* Lines 96-100: leave the loop on an exit word, else announce the run.
CheckExit ==
    /\ mpc = "entered"
    /\ IF lower(entered) \in ExitWords
       THEN /\ console' = console \o <<"goodbye", "finished">>
            /\ mpc' = "finished"
       ELSE IF markup_error(RunningMarkup(entered))
            THEN /\ mpc' = "crashed"
                 /\ UNCHANGED console
            ELSE /\ console' = Append(console, "running")
                 /\ mpc' = "running"
    /\ UNCHANGED <<entered, prompts, raised, invoked>>
    /\ UNCHANGED <<fetchVars, normVars>>

\* Lines 102-115: the agent returns and its response is printed.
AgentReturns ==
    /\ mpc = "running"
    /\ invoked' = TRUE
    /\ console' = Append(console, "response")
    /\ mpc' = "prompt"
    /\ UNCHANGED <<entered, prompts, raised>>
    /\ UNCHANGED <<fetchVars, normVars>>

\* Lines 102, 121-122: the agent raises e; "except Exception" reports it.
AgentRaises(e) ==
    /\ mpc = "running"
    /\ invoked' = TRUE
    /\ raised' = e
    /\ IF IsException(e.class) /\ ~markup_error(ErrorMarkup(e.msg))
       THEN /\ console' = Append(console, "error")
            /\ mpc' = "prompt"
       ELSE /\ mpc' = "crashed"
            /\ UNCHANGED console
    /\ UNCHANGED <<entered, prompts>>
    /\ UNCHANGED <<fetchVars, normVars>>

MainNext ==
    \/ \E t \in MainTopics : Ask(t)
    \/ AskFails
    \/ CheckExit
    \/ AgentReturns
    \/ \E e \in Raised : AgentRaises(e)

MainSpec == MainInit /\ [][MainNext]_vars

(***************************************************************************)
(* Properties of main's loop, checked under MainSpec.                      *)
(***************************************************************************)
\* C11 (as claimed): whenever the agent run for a topic ends in an exception, the
\* failure is reported and the loop is back at the prompt; the loop has ended only
\* when the entered topic, lower-cased, is "exit" or "quit"; and for such a topic the
\* agent has not been invoked.
C11_LoopSurvivesFailures ==
    /\ raised # NoException =>
          (mpc = "prompt" /\ console[Len(console)] = "error")
    /\ mpc \in {"finished", "crashed"} => lower(entered) \in ExitWords
    /\ lower(entered) \in ExitWords => ~invoked

====
